---- MODULE Spec2Model ----
(***************************************************************************)
(* The concurrency notes of src/Rust/concurrency.rs as a state machine.    *)
(*                                                                         *)
(* The file is a run of independent snippets.  Each snippet is one program *)
(* here: a main thread and the threads it spawns, every thread a list of   *)
(* instructions taken statement by statement from the source.  The         *)
(* instructions are the calls the snippets make on std::thread, std::sync  *)
(* ::mpsc, Mutex and Arc; one action below gives each call its behaviour.  *)
(* Init chooses the snippet (and, for the `// snippet` closure bodies, the *)
(* computation the closure stands for).                                    *)
(***************************************************************************)
EXTENDS Integers, Sequences, FiniteSets, TLC

VARIABLES
  prog,      \* the snippet that is running
  clos,      \* per task: what its closure body computes ([f, x, fails])
  pc,        \* per thread: index of its next instruction
  tstate,    \* per thread: unspawned | running | finished | panicked | killed
  ret,       \* per thread: the Result its last call returned
  local,     \* per thread: the value its closure body computed
  result,    \* per task: what the thread left for its JoinHandle
  handle,    \* per task: none | live | joined | dropped (the JoinHandle)
  handles,   \* the Vec of JoinHandles of the counter snippet
  joinRes,   \* per task: what join() on its handle returned
  exited,    \* the process has exited (main returned or panicked)
  out,       \* what main and the tasks printed, in order
  cell,      \* the Mutex: none | live | dropped
  mval,      \* the value inside the Mutex
  guards,    \* the threads that hold a MutexGuard
  poisoned,  \* the Mutex's poison flag
  strong,    \* the Arc's strong count
  arcs,      \* live Arc handles: handle id -> owning thread
  chan,      \* the channel: none | open
  queue,     \* the channel's queue
  senders,   \* the channel's count of live Senders
  ends,      \* live Senders: name -> owning thread
  rxLive,    \* the Receiver has not been dropped
  sent,      \* history: the messages whose send succeeded, in queue order
  recvd,     \* history: the messages the receiver was handed, in order
  eos,       \* history: the receiver was told that no more values will come
  closedAt   \* history: Len(recvd) when the last Sender was dropped, else -1

thrVars  == <<pc, tstate, ret, local, result>>
joinVars == <<handle, handles, joinRes>>
cellVars == <<cell, mval, guards, poisoned, strong, arcs>>
chanVars == <<chan, queue, senders, ends, rxLive, sent, recvd, eos, closedAt>>
vars == <<prog, clos, thrVars, joinVars, exited, out, cellVars, chanVars>>

----------------------------------------------------------------------------
(* Bounds and program constants *)

\* The `// snippet` closure bodies are applied to inputs 0..MaxInput.
MaxInput == 2

\* for _ in 1..10
RangeStart == 1
RangeEnd == 10

\* let m = Mutex::new(4);   *num = 8;
MutexInit == 4
MutexStored == 8

\* Arc::new(Mutex::new(0))
CounterInit == 0

Main == 0

\* 1..10 is half open: one iteration for each of 1, 2, ..., 9.
\* The length of the inclusive range 1..=10.
RangeLenInclusive == IF RangeEnd >= RangeStart THEN RangeEnd - RangeStart + 1 ELSE 0

RangeLen == IF RangeEnd > RangeStart THEN RangeEnd - RangeStart ELSE 0

----------------------------------------------------------------------------
(* Values *)

Ok(v)  == [kind |-> "Ok", val |-> v]
Err(v) == [kind |-> "Err", val |-> v]
None   == [kind |-> "None", val |-> "none"]

Msg(v, e, k) == [val |-> v, src |-> e, seq |-> k]

\* i32 arithmetic of `*sptr += 1` (d >= 0): past i32::MAX the sum wraps round
\* to i32::MIN.
I32Max == 2147483647

I32Add(v, d) ==
  IF v > I32Max - d THEN (v - I32Max) + (d - I32Max) - 2 ELSE v + d

\* The computations a `// snippet` body may stand for.
Fns == {"succ", "double", "square"}

Apply(f, x) ==
  CASE f = "succ"   -> I32Add(x, 1)
    [] f = "double" -> I32Add(x, x)
    [] f = "square" -> x * x

NoClosure == [f |-> "succ", x |-> 0, fails |-> FALSE]

Closures == [f : Fns, x : 0..MaxInput, fails : BOOLEAN]

----------------------------------------------------------------------------
(* The snippets, statement by statement *)

Ins(op, a, b) == [op |-> op, a |-> a, b |-> b]

\* thread::spawn: which handle becomes of it, and what the closure captures.
Cap(bound, tx, arc) == [bound |-> bound, tx |-> tx, arc |-> arc]

RECURSIVE Flatten(_)
Flatten(ss) == IF ss = <<>> THEN <<>> ELSE Head(ss) \o Flatten(Tail(ss))

Programs ==
  {"spawn_join", "move_detach", "chan_one", "chan_many", "chan_two",
   "mutex_block", "counter"}

NTasks(p) ==
  CASE p = "spawn_join"  -> 2
    [] p = "move_detach" -> 1
    [] p = "chan_one"    -> 1
    [] p = "chan_many"   -> 1
    [] p = "chan_two"    -> 2
    [] p = "mutex_block" -> 0
    [] p = "counter"     -> RangeLen

\* lines 7-20: thread::spawn(|| { .. }); let handle = thread::spawn(..);
\* handle.join().unwrap();
SpawnJoinMain ==
  << Ins("spawn", 1, Cap(FALSE, {}, {})),
     Ins("spawn", 2, Cap(TRUE, {}, {})),
     Ins("join", 2, 0),
     Ins("unwrap", 0, 0),
     Ins("end", "unit", 0) >>

SnippetTask == << Ins("snippet", 0, 0), Ins("end", "local", 0) >>

\* lines 24-28: let handle = thread::spawn(move || { println!(..name) });
MoveDetachMain ==
  << Ins("spawn", 1, Cap(TRUE, {}, {})), Ins("end", "unit", 0) >>

MoveDetachTask ==
  << Ins("print_str", "Hello, I am Rust.", 0), Ins("end", "unit", 0) >>

\* lines 36-56
ChanOneMain ==
  << Ins("channel", 0, 0),
     Ins("spawn", 1, Cap(FALSE, {"tx"}, {})),
     Ins("recv", 0, 0),
     Ins("unwrap", 0, 0),
     Ins("print_ret", 0, 0),
     Ins("try_recv", 0, 0),
     Ins("unwrap", 0, 0),
     Ins("print_ret", 0, 0),
     Ins("end", "unit", 0) >>

ChanOneTask ==
  << Ins("send", "tx", Msg("Rust from spawned thread", "tx", 1)),
     Ins("unwrap", 0, 0),
     Ins("end", "unit", 0) >>

\* for val in vals { tx.send(val).unwrap(); thread::sleep(..); }
SendLoop(e, vals) ==
  Flatten([k \in 1..Len(vals) |->
             << Ins("send", e, Msg(vals[k], e, k)),
                Ins("unwrap", 0, 0),
                Ins("sleep", 0, 0) >>])
    \o << Ins("end", "unit", 0) >>

\* for received in rx { println!(..) }: the loop head, its body, the back edge.
RecvLoop(at) ==
  << Ins("for_rx", at + 3, 0), Ins("print_ret", 0, 0), Ins("loop", at, 0) >>

\* lines 59-80
ChanManyVals == << "hi", "from", "the", "thread" >>

ChanManyMain ==
  << Ins("channel", 0, 0), Ins("spawn", 1, Cap(FALSE, {"tx"}, {})) >>
    \o RecvLoop(3) \o << Ins("end", "unit", 0) >>

\* lines 83-113
ChanTwoValsA == << "some", "messages" >>
ChanTwoValsB == << "more", "messages" >>

ChanTwoMain ==
  << Ins("channel", 0, 0),
     Ins("clone_tx", "tx1", 0),
     Ins("spawn", 1, Cap(FALSE, {"tx1"}, {})),
     Ins("spawn", 2, Cap(FALSE, {"tx"}, {})) >>
    \o RecvLoop(5) \o << Ins("end", "unit", 0) >>

\* lines 133-145
MutexBlockMain ==
  << Ins("mutex_new", MutexInit, 0),
     Ins("lock", 0, 0),
     Ins("unwrap", 0, 0),
     Ins("store", MutexStored, 0),
     Ins("unlock", 0, 0),
     Ins("print_debug", 0, 0),
     Ins("end", "unit", 0) >>

\* lines 166-194
CounterSpawnLoop ==
  Flatten([i \in 1..RangeLen |->
             << Ins("arc_clone", i, 0),
                Ins("spawn", i, Cap(TRUE, {}, {i})),
                Ins("push", i, 0) >>])

CounterJoinAt == 3 + 3 * RangeLen

CounterMain ==
  << Ins("arc_new", CounterInit, 0), Ins("vec_new", 0, 0) >>
    \o CounterSpawnLoop
    \o << Ins("for_join", CounterJoinAt + 3, 0),
          Ins("unwrap", 0, 0),
          Ins("loop", CounterJoinAt, 0),
          Ins("lock", 0, 0),
          Ins("unwrap", 0, 0),
          Ins("print_deref", 0, 0),
          Ins("unlock", 0, 0),
          Ins("end", "unit", 0) >>

CounterTask ==
  << Ins("lock", 0, 0),
     Ins("unwrap", 0, 0),
     Ins("add_load", 0, 0),
     Ins("add_store", 1, 0),
     Ins("end", "unit", 0) >>

ChanManyTask == SendLoop("tx", ChanManyVals)

ChanTwoTaskA == SendLoop("tx1", ChanTwoValsA)

ChanTwoTaskB == SendLoop("tx", ChanTwoValsB)

Code(p, t) ==
  CASE p = "spawn_join"  -> IF t = Main THEN SpawnJoinMain ELSE SnippetTask
    [] p = "move_detach" -> IF t = Main THEN MoveDetachMain ELSE MoveDetachTask
    [] p = "chan_one"    -> IF t = Main THEN ChanOneMain ELSE ChanOneTask
    [] p = "chan_many"   -> IF t = Main THEN ChanManyMain
                            ELSE ChanManyTask
    [] p = "chan_two"    -> IF t = Main THEN ChanTwoMain
                            ELSE IF t = 1 THEN ChanTwoTaskA
                            ELSE ChanTwoTaskB
    [] p = "mutex_block" -> MutexBlockMain
    [] p = "counter"     -> IF t = Main THEN CounterMain ELSE CounterTask

Tasks == 1..NTasks(prog)
Threads == 0..NTasks(prog)

----------------------------------------------------------------------------
(* The state after construction: nothing spawned, nothing created *)

Init ==
  /\ prog \in Programs
  /\ clos \in [Tasks -> IF prog = "spawn_join" THEN Closures ELSE {NoClosure}]
  /\ pc = [t \in Threads |-> 1]
  /\ tstate = [t \in Threads |-> IF t = Main THEN "running" ELSE "unspawned"]
  /\ ret = [t \in Threads |-> None]
  /\ local = [t \in Threads |-> 0]
  /\ result = [t \in Threads |-> None]
  /\ handle = [t \in Tasks |-> "none"]
  /\ handles = <<>>
  /\ joinRes = [t \in Tasks |-> None]
  /\ exited = FALSE
  /\ out = <<>>
  /\ cell = "none"
  /\ mval = 0
  /\ guards = {}
  /\ poisoned = FALSE
  /\ strong = 0
  /\ arcs = <<>>
  /\ chan = "none"
  /\ queue = <<>>
  /\ senders = 0
  /\ ends = <<>>
  /\ rxLive = FALSE
  /\ sent = <<>>
  /\ recvd = <<>>
  /\ eos = FALSE
  /\ closedAt = -1

----------------------------------------------------------------------------
(* Helpers of the steps *)

Terminated(t) == tstate[t] \in {"finished", "panicked"}

Runnable(self) ==
  /\ ~exited
  /\ tstate[self] = "running"
  /\ pc[self] <= Len(Code(prog, self))

Cur(self) == Code(prog, self)[pc[self]]

At(self, op) == Runnable(self) /\ Cur(self).op = op

Goto(self, k) == pc' = [pc EXCEPT ![self] = k]

Advance(self) == Goto(self, pc[self] + 1)

Returns(self, r) == ret' = [ret EXCEPT ![self] = r]

\* What a thread owns is dropped when its closure (or main) ends, and when it
\* unwinds from a panic.
OwnedEnds(self) == {e \in DOMAIN ends : ends[e] = self}

OwnedArcs(self) == {h \in DOMAIN arcs : arcs[h] = self}

Without(f, S) == [k \in DOMAIN f \ S |-> f[k]]

\* A Sender whose drop is not counted: the channel never closes.
SendersAfterDropKept(self) == senders

\* A drop that takes one from the count whether or not the thread owned a
\* Sender.
SendersAfterDropBlind(self) == senders - 1

\* Each Sender a thread owns is one fewer when the thread drops it.
SendersAfterDrop(self) == senders - Cardinality(OwnedEnds(self))

\* An Arc whose drop is not counted.
StrongAfterDropKept(self) == strong

\* Each Arc a thread owns is one fewer when the thread drops it.
StrongAfterDrop(self) == strong - Cardinality(OwnedArcs(self))

\* A guard that only the main thread gives back: a spawned thread's guard
\* outlives its closure.
ReleasedByMainOnly(self) == IF self = Main THEN guards \ {self} ELSE guards

\* A guard that is leaked instead of dropped: the lock stays held.
ReleasedNever(self) == guards

\* A MutexGuard releases the lock when it is dropped: at the end of its
\* scope, at the end of its thread, or when its thread unwinds.
Released(self) == guards \ {self}

\* The Mutex is destroyed with its last Arc; the plain Mutex `m` of
\* lines 133-145 is a local of main.
CellAfterDrop(self) ==
  IF cell = "live"
     /\ \/ strong > 0 /\ StrongAfterDrop(self) = 0
        \/ strong = 0 /\ self = Main
  THEN "dropped" ELSE cell

\* A guard dropped while its thread is panicking poisons the Mutex.
PoisonedAfterDrop(self, panicking) ==
  poisoned \/ (panicking /\ self \in guards)

DropOwned(self, panicking) ==
  /\ ends' = Without(ends, OwnedEnds(self))
  /\ senders' = SendersAfterDrop(self)
  /\ closedAt' = IF senders > 0 /\ SendersAfterDrop(self) = 0
                 THEN Len(recvd) ELSE closedAt
  /\ rxLive' = (rxLive /\ self # Main)
  /\ guards' = Released(self)
  /\ poisoned' = PoisonedAfterDrop(self, panicking)
  /\ arcs' = Without(arcs, OwnedArcs(self))
  /\ strong' = StrongAfterDrop(self)
  /\ cell' = CellAfterDrop(self)
  /\ handle' = IF self = Main
               THEN [t \in Tasks |->
                       IF handle[t] = "live" THEN "dropped" ELSE handle[t]]
               ELSE handle
  /\ UNCHANGED <<mval, chan, queue, sent, recvd, eos, handles, joinRes>>

\* A panic that is recorded while the thread runs on past it.
PanicCaught(self) ==
  /\ result' = [result EXCEPT ![self] = Err("panic")]
  /\ Advance(self)
  /\ UNCHANGED <<tstate, local, ret, joinVars, cellVars, chanVars>>

\* A panic that aborts: it takes every running thread down with it.
PanicAborts(self) ==
  /\ tstate' = [t \in Threads |->
                  IF t = self THEN "panicked"
                  ELSE IF tstate[t] = "running" THEN "killed" ELSE tstate[t]]
  /\ result' = [result EXCEPT ![self] = Err("panic")]
  /\ local' = [local EXCEPT ![self] = 0]
  /\ DropOwned(self, TRUE)
  /\ UNCHANGED <<pc, ret>>

\* A panic unwinds the thread: its locals are dropped and the thread ends
\* with the panic as what its JoinHandle will report.
Panic(self) ==
  /\ tstate' = [tstate EXCEPT ![self] = "panicked"]
  /\ result' = [result EXCEPT ![self] = Err("panic")]
  /\ local' = [local EXCEPT ![self] = 0]
  /\ DropOwned(self, TRUE)
  /\ UNCHANGED <<pc, ret>>

----------------------------------------------------------------------------
(* std::thread *)

\* thread::spawn(closure): the closure's captures move into the new thread;
\* a handle that is not bound to a name is dropped at once.
Spawn(self) ==
  /\ At(self, "spawn")
  /\ LET t == Cur(self).a
         c == Cur(self).b
     IN /\ tstate' = [tstate EXCEPT ![t] = "running"]
        /\ handle' = [handle EXCEPT ![t] = IF c.bound THEN "live" ELSE "dropped"]
        /\ ends' = [e \in DOMAIN ends |-> IF e \in c.tx THEN t ELSE ends[e]]
        /\ arcs' = [h \in DOMAIN arcs |-> IF h \in c.arc THEN t ELSE arcs[h]]
  /\ Advance(self)
  /\ UNCHANGED <<prog, clos, ret, local, result, handles, joinRes, exited, out,
                 cell, mval, guards, poisoned, strong,
                 chan, queue, senders, rxLive, sent, recvd, eos, closedAt>>

\* A join that only waits for its thread to have started.
JoinReadyStarted(t) == tstate[t] # "unspawned"

\* join() waits for its thread to finish.
JoinReady(t) == Terminated(t)

\* A join that reads the first thread's slot, whichever handle it is given.
JoinOutcomeFirst(t) == result[1]

\* join() hands over what the thread left: Ok(value) or Err(panic).
JoinOutcome(t) == result[t]

JoinOn(self, t) ==
  /\ handle[t] = "live"
  /\ JoinReady(t)
  /\ Returns(self, JoinOutcome(t))
  /\ joinRes' = [joinRes EXCEPT ![t] = JoinOutcome(t)]
  /\ handle' = [handle EXCEPT ![t] = "joined"]

\* handle.join()
Join(self) ==
  /\ At(self, "join")
  /\ JoinOn(self, Cur(self).a)
  /\ Advance(self)
  /\ UNCHANGED <<prog, clos, tstate, local, result, handles, exited, out,
                 cellVars, chanVars>>

\* for handle in handles { handle.join() .. }
ForJoin(self) ==
  /\ At(self, "for_join")
  /\ IF handles = <<>>
     THEN /\ Goto(self, Cur(self).a)
          /\ UNCHANGED <<ret, joinVars>>
     ELSE /\ JoinOn(self, Head(handles))
          /\ handles' = Tail(handles)
          /\ Advance(self)
  /\ UNCHANGED <<prog, clos, tstate, local, result, exited, out,
                 cellVars, chanVars>>

\* .unwrap(): the value of an Ok, a panic on an Err.
Unwrap(self) ==
  /\ At(self, "unwrap")
  /\ IF ret[self].kind = "Ok"
     THEN /\ Advance(self)
          /\ UNCHANGED <<tstate, ret, local, result, joinVars,
                         cellVars, chanVars>>
     ELSE Panic(self)
  /\ UNCHANGED <<prog, clos, exited, out>>

\* A `// snippet` body: it computes f(x), or it panics.
Snippet(self) ==
  /\ At(self, "snippet")
  /\ IF clos[self].fails
     THEN Panic(self)
     ELSE /\ local' = [local EXCEPT ![self] = Apply(clos[self].f, clos[self].x)]
          /\ Advance(self)
          /\ UNCHANGED <<tstate, ret, result, joinVars, cellVars, chanVars>>
  /\ UNCHANGED <<prog, clos, exited, out>>

\* A drop that waits for the thread, as a join would.
HandleDropWaits(self) ==
  \A t \in Tasks : (self = Main /\ handle[t] = "live") => Terminated(t)

\* Dropping a JoinHandle detaches its thread: the drop waits for nothing.
HandleDropReady(self) == TRUE

\* A closure that returns main's copy of the value instead of its own.
ReturnedStale(self) == Ok(local[Main])

\* What a closure returns: the value it computed, or ().
Returned(self) == Ok(IF Cur(self).a = "local" THEN local[self] ELSE "unit")

\* The end of a closure or of main: locals and captures are dropped, the
\* thread finishes and leaves its value.
End(self) ==
  /\ At(self, "end")
  /\ HandleDropReady(self)
  /\ tstate' = [tstate EXCEPT ![self] = "finished"]
  /\ result' = [result EXCEPT ![self] = Returned(self)]
  /\ local' = [local EXCEPT ![self] = 0]
  /\ DropOwned(self, FALSE)
  /\ Advance(self)
  /\ UNCHANGED <<prog, clos, ret, exited, out>>

\* When main has returned or panicked the process exits, whatever the other
\* threads are doing.
ProcessExit ==
  /\ ~exited
  /\ Terminated(Main)
  /\ exited' = TRUE
  /\ tstate' = [t \in Threads |->
                  IF tstate[t] = "running" THEN "killed" ELSE tstate[t]]
  /\ UNCHANGED <<prog, clos, pc, ret, local, result, joinVars, out,
                 cellVars, chanVars>>

thread_sleep(self) ==
  /\ At(self, "sleep")
  /\ Advance(self)
  /\ UNCHANGED <<prog, clos, tstate, ret, local, result, joinVars, exited, out,
                 cellVars, chanVars>>

\* The back edge of a loop.
Loop(self) ==
  /\ At(self, "loop")
  /\ Goto(self, Cur(self).a)
  /\ UNCHANGED <<prog, clos, tstate, ret, local, result, joinVars, exited, out,
                 cellVars, chanVars>>

\* let mut handles = vec![];
VecNew(self) ==
  /\ At(self, "vec_new")
  /\ handles' = <<>>
  /\ Advance(self)
  /\ UNCHANGED <<prog, clos, tstate, ret, local, result, handle, joinRes,
                 exited, out, cellVars, chanVars>>

\* handles.push(handle);
Push(self) ==
  /\ At(self, "push")
  /\ handles' = Append(handles, Cur(self).a)
  /\ Advance(self)
  /\ UNCHANGED <<prog, clos, tstate, ret, local, result, handle, joinRes,
                 exited, out, cellVars, chanVars>>

----------------------------------------------------------------------------
(* println! *)

Prints(v) == out' = Append(out, v)

PrintStr(self) ==
  /\ At(self, "print_str")
  /\ Prints(Cur(self).a)
  /\ Advance(self)
  /\ UNCHANGED <<prog, clos, tstate, ret, local, result, joinVars, exited,
                 cellVars, chanVars>>

\* println!(.. received): the text of the message that the preceding unwrap
\* or loop head bound to `received`.
PrintRet(self) ==
  /\ At(self, "print_ret")
  /\ Prints(ret[self].val.val)
  /\ Advance(self)
  /\ UNCHANGED <<prog, clos, tstate, ret, local, result, joinVars, exited,
                 cellVars, chanVars>>

\* println!("Result: {}", *guard)
PrintDeref(self) ==
  /\ At(self, "print_deref")
  /\ self \in guards
  /\ Prints(mval)
  /\ Advance(self)
  /\ UNCHANGED <<prog, clos, tstate, ret, local, result, joinVars, exited,
                 cellVars, chanVars>>

\* println!("m = {m:?}"): Mutex's Debug tries the lock and shows the data.
PrintDebug(self) ==
  /\ At(self, "print_debug")
  /\ Prints(IF guards = {} THEN mval ELSE "<locked>")
  /\ Advance(self)
  /\ UNCHANGED <<prog, clos, tstate, ret, local, result, joinVars, exited,
                 cellVars, chanVars>>

----------------------------------------------------------------------------
(* std::sync::mpsc *)

\* let (tx, rx) = mpsc::channel();
Channel(self) ==
  /\ At(self, "channel")
  /\ chan' = "open"
  /\ queue' = <<>>
  /\ senders' = 1
  /\ ends' = ("tx" :> self)
  /\ rxLive' = TRUE
  /\ Advance(self)
  /\ UNCHANGED <<prog, clos, tstate, ret, local, result, joinVars, exited, out,
                 cellVars, sent, recvd, eos, closedAt>>

\* A clone that is not counted.
SendersAfterCloneSame == senders

\* A clone is one more Sender of the same channel.
SendersAfterClone == senders + 1

\* let tx1 = tx.clone();
CloneTx(self) ==
  /\ At(self, "clone_tx")
  /\ "tx" \in DOMAIN ends
  /\ ends' = ends @@ (Cur(self).a :> self)
  /\ senders' = SendersAfterClone
  /\ Advance(self)
  /\ UNCHANGED <<prog, clos, tstate, ret, local, result, joinVars, exited, out,
                 cellVars, chan, queue, rxLive, sent, recvd, eos, closedAt>>

\* A channel that holds one message, as a sync_channel(1) would.
QueueRoomOne(q) == Len(q) < 1

\* mpsc::channel() is the unbounded channel: the queue has room for a
\* message whatever it holds.
QueueRoom(q) == TRUE

\* A send that queues its message twice.
EnqueueTwice(q, m) == Append(Append(q, m), m)

\* A send whose message never reaches the queue.
EnqueueDropped(q, m) == q

\* A send that jumps the queue.
EnqueueFront(q, m) == <<m>> \o q

\* The queue after a send: the message goes to the back.
Enqueue(q, m) == Append(q, m)

\* tx.send(val): never waits; an error hands the value back when the
\* Receiver is gone.
Send(self) ==
  /\ At(self, "send")
  /\ Cur(self).a \in DOMAIN ends
  /\ QueueRoom(queue)
  /\ IF rxLive
     THEN /\ queue' = Enqueue(queue, Cur(self).b)
          /\ sent' = Append(sent, Cur(self).b)
          /\ Returns(self, Ok("unit"))
     ELSE /\ Returns(self, Err(Cur(self).b))
          /\ UNCHANGED <<queue, sent>>
  /\ Advance(self)
  /\ UNCHANGED <<prog, clos, tstate, local, result, joinVars, exited, out,
                 cellVars, chan, senders, ends, rxLive, recvd, eos, closedAt>>

\* A channel that counts as disconnected while one Sender is still left.
DisconnectedAtOne == senders <= 1

\* The channel is disconnected when no Sender is left.
Disconnected == senders = 0

\* A receive that looks at the Sender count before it looks at the queue.
RecvResultClosedFirst ==
  IF Disconnected THEN Err("Disconnected")
  ELSE IF queue # <<>> THEN Ok(Head(queue))
  ELSE None

\* A receive that does not wait: an empty queue is reported as the end.
RecvResultNoWait ==
  IF queue # <<>> THEN Ok(Head(queue)) ELSE Err("Disconnected")

\* A receive that is not woken by the close: with nothing queued it waits,
\* Senders or no Senders.
RecvResultSleepsOn ==
  IF queue # <<>> THEN Ok(Head(queue)) ELSE None

\* What a receive finds: the message at the front, or that the channel is
\* empty and disconnected, or (None) nothing yet.
RecvResult ==
  IF queue # <<>> THEN Ok(Head(queue))
  ELSE IF Disconnected THEN Err("Disconnected")
  ELSE None

\* A receive that leaves the message it returned in the queue.
DeliverPeek(r) ==
  IF r.kind = "Ok"
  THEN /\ recvd' = Append(recvd, r.val)
       /\ UNCHANGED <<queue, eos>>
  ELSE /\ eos' = (eos \/ r.val = "Disconnected")
       /\ UNCHANGED <<queue, recvd>>

\* The receiver takes what it found.
Deliver(r) ==
  IF r.kind = "Ok"
  THEN /\ queue' = Tail(queue)
       /\ recvd' = Append(recvd, r.val)
       /\ eos' = eos
  ELSE /\ eos' = (eos \/ r.val = "Disconnected")
       /\ UNCHANGED <<queue, recvd>>

\* rx.recv(): waits until there is a message or the channel is closed.
Recv(self) ==
  /\ At(self, "recv")
  /\ rxLive
  /\ RecvResult.kind # "None"
  /\ Returns(self, RecvResult)
  /\ Deliver(RecvResult)
  /\ Advance(self)
  /\ UNCHANGED <<prog, clos, tstate, local, result, joinVars, exited, out,
                 cellVars, chan, senders, ends, rxLive, sent, closedAt>>

\* A try_recv that takes an empty channel for a closed one.
TryRecvResultDisconnected ==
  IF queue # <<>> THEN Ok(Head(queue)) ELSE Err("Disconnected")

\* rx.try_recv(): returns at once.
TryRecvResult == IF RecvResult.kind = "None" THEN Err("Empty") ELSE RecvResult

TryRecv(self) ==
  /\ At(self, "try_recv")
  /\ rxLive
  /\ Returns(self, TryRecvResult)
  /\ Deliver(TryRecvResult)
  /\ Advance(self)
  /\ UNCHANGED <<prog, clos, tstate, local, result, joinVars, exited, out,
                 cellVars, chan, senders, ends, rxLive, sent, closedAt>>

\* for received in rx: each step is a recv(); an error ends the loop, and
\* the Receiver, which the loop took over, is dropped.
ForRx(self) ==
  /\ At(self, "for_rx")
  /\ rxLive
  /\ RecvResult.kind # "None"
  /\ Returns(self, RecvResult)
  /\ Deliver(RecvResult)
  /\ IF RecvResult.kind = "Ok"
     THEN Advance(self) /\ UNCHANGED rxLive
     ELSE Goto(self, Cur(self).a) /\ rxLive' = FALSE
  /\ UNCHANGED <<prog, clos, tstate, local, result, joinVars, exited, out,
                 cellVars, chan, senders, ends, sent, closedAt>>

----------------------------------------------------------------------------
(* Mutex and Arc *)

\* let m = Mutex::new(4);
MutexNew(self) ==
  /\ At(self, "mutex_new")
  /\ cell' = "live"
  /\ mval' = Cur(self).a
  /\ guards' = {}
  /\ poisoned' = FALSE
  /\ Advance(self)
  /\ UNCHANGED <<prog, clos, tstate, ret, local, result, joinVars, exited, out,
                 strong, arcs, chanVars>>

\* let counter = Arc::new(Mutex::new(0));
ArcNew(self) ==
  /\ At(self, "arc_new")
  /\ cell' = "live"
  /\ mval' = Cur(self).a
  /\ guards' = {}
  /\ poisoned' = FALSE
  /\ strong' = 1
  /\ arcs' = (0 :> self)
  /\ Advance(self)
  /\ UNCHANGED <<prog, clos, tstate, ret, local, result, joinVars, exited, out,
                 chanVars>>

\* An Arc whose clone is not counted.
StrongAfterCloneSame == strong

\* Cloning an Arc only raises the count.
StrongAfterClone == strong + 1

\* let counter = Arc::clone(&counter);
ArcClone(self) ==
  /\ At(self, "arc_clone")
  /\ cell = "live"
  /\ arcs' = arcs @@ (Cur(self).a :> self)
  /\ strong' = StrongAfterClone
  /\ Advance(self)
  /\ UNCHANGED <<prog, clos, tstate, ret, local, result, joinVars, exited, out,
                 cell, mval, guards, poisoned, chanVars>>

\* A lock that excludes nobody.
LockFreeAlways == TRUE

\* A lock that admits a second holder.
LockFreeForTwo == Cardinality(guards) <= 1

\* lock() can be had when no thread holds a guard.
LockFree == guards = {}

\* A lock() that hands out a guard without taking the lock.
AcquiredNothing(self) == guards

\* The thread that lock() returns to holds the lock.
Acquired(self) == guards \cup {self}

\* m.lock(): waits for the lock; a poisoned Mutex gives the guard inside
\* an Err.
Lock(self) ==
  /\ At(self, "lock")
  /\ cell = "live"
  /\ LockFree
  /\ guards' = Acquired(self)
  /\ Returns(self, IF poisoned THEN Err("Poisoned") ELSE Ok("guard"))
  /\ Advance(self)
  /\ UNCHANGED <<prog, clos, tstate, local, result, joinVars, exited, out,
                 cell, mval, poisoned, strong, arcs, chanVars>>

\* A write through the guard that does not reach the Mutex.
StoreLost(self) ==
  /\ At(self, "store")
  /\ self \in guards
  /\ mval' = mval
  /\ Advance(self)
  /\ UNCHANGED <<prog, clos, tstate, ret, local, result, joinVars, exited, out,
                 cell, guards, poisoned, strong, arcs, chanVars>>

\* *num = 8;
Store(self) ==
  /\ At(self, "store")
  /\ self \in guards
  /\ mval' = Cur(self).a
  /\ Advance(self)
  /\ UNCHANGED <<prog, clos, tstate, ret, local, result, joinVars, exited, out,
                 cell, guards, poisoned, strong, arcs, chanVars>>

\* The value after `*sptr += 1`.
Incremented(v, d) == I32Add(v, d)

\* *sptr += 1; reads the value through the guard ...
AddLoad(self) ==
  /\ At(self, "add_load")
  /\ self \in guards
  /\ local' = [local EXCEPT ![self] = mval]
  /\ Advance(self)
  /\ UNCHANGED <<prog, clos, tstate, ret, result, joinVars, exited, out,
                 cellVars, chanVars>>

\* ... and writes the sum back.
AddStore(self) ==
  /\ At(self, "add_store")
  /\ self \in guards
  /\ mval' = Incremented(local[self], Cur(self).a)
  /\ Advance(self)
  /\ UNCHANGED <<prog, clos, tstate, ret, local, result, joinVars, exited, out,
                 cell, guards, poisoned, strong, arcs, chanVars>>

\* The guard goes out of scope: the lock is released.
Unlock(self) ==
  /\ At(self, "unlock")
  /\ guards' = Released(self)
  /\ Advance(self)
  /\ UNCHANGED <<prog, clos, tstate, ret, local, result, joinVars, exited, out,
                 cell, mval, poisoned, strong, arcs, chanVars>>

----------------------------------------------------------------------------
(* The machine *)

\* The step of one thread: the call it is at.
ThreadStep(self) ==
  \/ Spawn(self) \/ Join(self) \/ ForJoin(self) \/ Unwrap(self)
  \/ Snippet(self) \/ End(self) \/ thread_sleep(self) \/ Loop(self)
  \/ VecNew(self) \/ Push(self) \/ PrintStr(self) \/ PrintRet(self)
  \/ PrintDeref(self) \/ PrintDebug(self) \/ Channel(self) \/ CloneTx(self)
  \/ Send(self) \/ Recv(self) \/ TryRecv(self) \/ ForRx(self)
  \/ MutexNew(self) \/ ArcNew(self) \/ ArcClone(self) \/ Lock(self)
  \/ Store(self) \/ AddLoad(self) \/ AddStore(self) \/ Unlock(self)

Next ==
  \/ \E self \in Threads : Spawn(self)
  \/ \E self \in Threads : Join(self)
  \/ \E self \in Threads : ForJoin(self)
  \/ \E self \in Threads : Unwrap(self)
  \/ \E self \in Threads : Snippet(self)
  \/ \E self \in Threads : End(self)
  \/ \E self \in Threads : thread_sleep(self)
  \/ \E self \in Threads : Loop(self)
  \/ \E self \in Threads : VecNew(self)
  \/ \E self \in Threads : Push(self)
  \/ \E self \in Threads : PrintStr(self)
  \/ \E self \in Threads : PrintRet(self)
  \/ \E self \in Threads : PrintDeref(self)
  \/ \E self \in Threads : PrintDebug(self)
  \/ \E self \in Threads : Channel(self)
  \/ \E self \in Threads : CloneTx(self)
  \/ \E self \in Threads : Send(self)
  \/ \E self \in Threads : Recv(self)
  \/ \E self \in Threads : TryRecv(self)
  \/ \E self \in Threads : ForRx(self)
  \/ \E self \in Threads : MutexNew(self)
  \/ \E self \in Threads : ArcNew(self)
  \/ \E self \in Threads : ArcClone(self)
  \/ \E self \in Threads : Lock(self)
  \/ \E self \in Threads : Store(self)
  \/ \E self \in Threads : AddLoad(self)
  \/ \E self \in Threads : AddStore(self)
  \/ \E self \in Threads : Unlock(self)
  \/ ProcessExit

Spec == Init /\ [][Next]_vars

\* The channel snippets of lines 36-113 on their own, with the scheduling of
\* the operating system's threads: a thread that can take its step is not
\* passed over for ever, and the process exits once main has ended.
ChanPrograms == {"chan_one", "chan_many", "chan_two"}

InitChan == Init /\ prog \in ChanPrograms

NextChan ==
  \/ \E self \in Threads : Channel(self)
  \/ \E self \in Threads : CloneTx(self)
  \/ \E self \in Threads : Spawn(self)
  \/ \E self \in Threads : Send(self)
  \/ \E self \in Threads : Unwrap(self)
  \/ \E self \in Threads : thread_sleep(self)
  \/ \E self \in Threads : Recv(self)
  \/ \E self \in Threads : TryRecv(self)
  \/ \E self \in Threads : ForRx(self)
  \/ \E self \in Threads : PrintRet(self)
  \/ \E self \in Threads : Loop(self)
  \/ \E self \in Threads : End(self)
  \/ ProcessExit

Scheduled(t) == t \in Threads /\ ThreadStep(t)

FairChan ==
  /\ InitChan
  /\ [][NextChan]_vars
  /\ \A t \in 0..NTasks("chan_two") : WF_vars(Scheduled(t))
  /\ WF_vars(ProcessExit)

\* The counter snippet of lines 166-194 on its own, with the same
\* scheduling: main and each of the spawned threads is an operating system
\* thread, and none that can take its step is passed over for ever.
InitCounter == Init /\ prog = "counter"

NextCounter ==
  \/ \E self \in Threads : ArcNew(self)
  \/ \E self \in Threads : VecNew(self)
  \/ \E self \in Threads : ArcClone(self)
  \/ \E self \in Threads : Spawn(self)
  \/ \E self \in Threads : Push(self)
  \/ \E self \in Threads : Lock(self)
  \/ \E self \in Threads : Unwrap(self)
  \/ \E self \in Threads : AddLoad(self)
  \/ \E self \in Threads : AddStore(self)
  \/ \E self \in Threads : ForJoin(self)
  \/ \E self \in Threads : Loop(self)
  \/ \E self \in Threads : PrintDeref(self)
  \/ \E self \in Threads : Unlock(self)
  \/ \E self \in Threads : End(self)
  \/ ProcessExit

FairCounter ==
  /\ InitCounter
  /\ [][NextCounter]_vars
  /\ \A t \in 0..RangeLen : WF_vars(Scheduled(t))
  /\ WF_vars(ProcessExit)

----------------------------------------------------------------------------
(* Properties *)

AllJoined == \A t \in Tasks : handle[t] = "joined"

AtOp(t, op) ==
  /\ tstate[t] = "running"
  /\ pc[t] <= Len(Code(prog, t))
  /\ Code(prog, t)[pc[t]].op = op

\* The tasks of the counter snippet that have written their increment back.
Incremented_Tasks ==
  {t \in Tasks : tstate[t] # "unspawned" /\ ~AtOp(t, "lock")
                 /\ ~AtOp(t, "unwrap") /\ ~AtOp(t, "add_load")
                 /\ ~AtOp(t, "add_store")}

\* C1: counter linearizability.  In the counter snippet the value is at
\* every moment the initial 0 plus one for each task that has written its
\* increment back, so no increment is lost or counted twice; once main has
\* joined the handle of every one of the N spawned tasks and holds the lock
\* again, the value it reads is N, and N is what it prints, whatever the
\* interleaving was.
C1_CounterLinearizable ==
  prog = "counter" =>
    /\ cell = "live" => mval = CounterInit + Cardinality(Incremented_Tasks)
    /\ (AllJoined /\ Main \in guards) => mval = CounterInit + NTasks(prog)
    /\ out # <<>> => out = << CounterInit + NTasks(prog) >>

C1_Witness ==
  /\ prog = "counter"
  /\ AllJoined
  /\ Main \in guards
  /\ out = << CounterInit + NTasks(prog) >>

\* C2: mutual exclusion of the shared cell.  At most one thread holds a
\* guard, and while a guard is held no thread that is calling lock() can
\* complete the call.
C2_MutualExclusion ==
  /\ Cardinality(guards) <= 1
  /\ \A t \in Threads :
       (AtOp(t, "lock") /\ guards # {}) => ~ENABLED Lock(t)

C2_Witness ==
  \E h \in Tasks, w \in Tasks :
    /\ h # w
    /\ guards = {h}
    /\ AtOp(h, "add_store")
    /\ AtOp(w, "lock")

Filter(ms, e) == SelectSeq(ms, LAMBDA m : m.src = e)

Vals(ms) == [k \in 1..Len(ms) |-> ms[k].val]

Srcs(ms) == [k \in 1..Len(ms) |-> ms[k].src]

IsPrefix(a, b) == Len(a) <= Len(b) /\ SubSeq(b, 1, Len(a)) = a

\* C3: FIFO per sender.  In the single-producer snippet the messages the
\* receiver has been handed so far are a prefix of the messages sent so
\* far, which are a prefix of "hi", "from", "the", "thread" in the order of
\* the send loop; what the loop has printed follows the same order.
C3_FifoSingleSender ==
  prog = "chan_many" =>
    /\ IsPrefix(recvd, sent)
    /\ IsPrefix(Vals(sent), ChanManyVals)
    /\ IsPrefix(out, Vals(recvd))

C3_Witness ==
  /\ prog = "chan_many"
  /\ Vals(recvd) = ChanManyVals
  /\ out = ChanManyVals

\* C4: order is kept per source.  In the two-producer snippet the messages
\* received from tx1 are a prefix of "some", "messages" and those received
\* from tx a prefix of "more", "messages", each in its sender's order,
\* however the two senders' messages are interleaved.
C4_PerSourceOrder ==
  prog = "chan_two" =>
    /\ IsPrefix(Vals(Filter(recvd, "tx1")), ChanTwoValsA)
    /\ IsPrefix(Vals(Filter(recvd, "tx")), ChanTwoValsB)
    /\ \A e \in {"tx", "tx1"} :
         \A k \in 1..Len(Filter(recvd, e)) : Filter(recvd, e)[k].seq = k

\* The second producer's first message overtakes the first producer's, and
\* the two sources alternate.
C4_Witness ==
  /\ prog = "chan_two"
  /\ Srcs(recvd) = << "tx", "tx1", "tx", "tx1" >>
  /\ Vals(recvd) = << "more", "some", "messages", "messages" >>

\* C5: drain before end-of-stream.  End-of-stream is reported only when no
\* Sender is left and the queue is empty, so every message whose send
\* succeeded has been handed over by then; and once it has been reported no
\* message is delivered any more.
C5_DrainBeforeEos ==
  /\ [](eos => (senders = 0 /\ queue = <<>> /\ recvd = sent))
  /\ [][eos => (eos' /\ recvd' = recvd)]_vars

\* The last Sender was dropped with messages still queued; they were
\* delivered after that, and then end-of-stream was reported.
C5_Witness ==
  /\ eos
  /\ closedAt >= 0
  /\ closedAt < Len(recvd)
  /\ recvd = sent

\* C6: the channel is closed exactly when the Sender count is zero.  The
\* count equals the number of live Senders (the original and every clone
\* not yet dropped), the channel is disconnected exactly when none is live,
\* and end-of-stream is never reported while a Sender is live.
C6_ClosedIffNoSender ==
  chan = "open" =>
    /\ senders = Cardinality(DOMAIN ends)
    /\ Disconnected <=> DOMAIN ends = {}
    /\ eos => DOMAIN ends = {}

\* The clone has been dropped, the original is still live, and the
\* receiver is waiting on the empty open channel.
C6_Witness ==
  /\ prog = "chan_two"
  /\ DOMAIN ends = {"tx"}
  /\ senders = 1
  /\ queue = <<>>
  /\ AtOp(Main, "for_rx")
  /\ ~eos

\* C7: join returns spawn's result.  In the spawn-and-join snippet, for
\* every f and x the closure body may stand for, when the closure does not
\* panic the join on its handle returns Ok(f(x)), and that is what the
\* caller holds after the call.
C7_JoinReturnsResult ==
  prog = "spawn_join" =>
    /\ (handle[2] = "joined" /\ ~clos[2].fails) =>
         /\ joinRes[2].kind = "Ok"
         /\ joinRes[2].val = Apply(clos[2].f, clos[2].x)
    /\ (AtOp(Main, "unwrap") /\ ~clos[2].fails) =>
         /\ ret[Main].kind = "Ok"
         /\ ret[Main].val = Apply(clos[2].f, clos[2].x)

C7_Witness ==
  /\ prog = "spawn_join"
  /\ clos[2] = [f |-> "square", x |-> 2, fails |-> FALSE]
  /\ handle[2] = "joined"
  /\ joinRes[2].kind = "Ok"
  /\ joinRes[2].val = 4
  /\ tstate[1] = "running"

Joined == {t \in Tasks : handle[t] = "joined"}

\* C8: join never returns before its task has terminated.  A task whose
\* handle has been joined has finished or panicked, has run its closure to
\* the end when it finished, holds no guard, no Arc and no Sender any more,
\* and left exactly what the join returned; in the counter snippet the
\* increment of every joined task is already in the value.
C8_JoinAfterTermination ==
  /\ \A t \in Joined :
       /\ tstate[t] \in {"finished", "panicked"}
       /\ tstate[t] = "finished" => pc[t] = Len(Code(prog, t)) + 1
       /\ t \notin guards
       /\ OwnedArcs(t) = {}
       /\ OwnedEnds(t) = {}
       /\ joinRes[t].kind = result[t].kind
  /\ (prog = "counter" /\ cell = "live") =>
       mval >= CounterInit + Cardinality(Joined)

\* Main has joined some handles of the counter snippet while another task
\* still holds the lock.
C8_Witness ==
  /\ prog = "counter"
  /\ Cardinality(Joined) >= 2
  /\ \E u \in Tasks : u \in guards /\ tstate[u] = "running"

\* C9: a task's failure is deferred to join.  A join returns Err exactly
\* when its own task panicked and Ok exactly when it finished; a handle
\* that was not joined has reported nothing; and the caller panics only by
\* unwrapping an Err it was handed, which for a task's panic means the Err
\* of a join on that task's handle.
C9_FailureDeferredToJoin ==
  /\ \A t \in Tasks :
       /\ handle[t] = "joined" =>
            /\ joinRes[t].kind = "Err" <=> tstate[t] = "panicked"
            /\ joinRes[t].kind = "Ok" <=> tstate[t] = "finished"
       /\ handle[t] # "joined" => joinRes[t].kind = "None"
  /\ tstate[Main] = "panicked" => ret[Main].kind = "Err"
  /\ (tstate[Main] = "panicked" /\ ret[Main].val = "panic") =>
       \E t \in Joined : tstate[t] = "panicked" /\ joinRes[t] = ret[Main]
  /\ prog = "spawn_join" =>
       (tstate[Main] = "panicked" => (2 \in Joined /\ tstate[2] = "panicked"))

\* Both closures panicked; the join on the second handle has returned Err
\* and the caller is still running, about to unwrap it.
C9_Witness ==
  /\ prog = "spawn_join"
  /\ tstate[1] = "panicked"
  /\ tstate[2] = "panicked"
  /\ handle[1] = "dropped"
  /\ handle[2] = "joined"
  /\ joinRes[2].kind = "Err"
  /\ tstate[Main] = "running"

Detached == {t \in Tasks : handle[t] = "dropped"}

\* Dropping a handle does not wait: main's end of scope and a spawn whose
\* handle is not kept can always be taken.
DropNeverBlocks ==
  /\ AtOp(Main, "end") /\ ~exited => ENABLED End(Main)
  /\ AtOp(Main, "spawn") /\ ~exited => ENABLED Spawn(Main)

\* What a detached task leaves is never handed to the caller: no join has
\* returned it, and a task's panic reaches the caller only through a handle
\* that was joined.
DetachedUnobserved ==
  /\ \A t \in Detached : joinRes[t].kind = "None"
  /\ (tstate[Main] = "panicked" /\ ret[Main].val = "panic") =>
       \E t \in Joined : tstate[t] = "panicked"

\* C10 as stated: dropping a handle never blocks the caller, the detached
\* task still runs to completion (when the program has ended, it has
\* finished or panicked), and its result is never observed.
C10_DetachedRunsToCompletion ==
  /\ DropNeverBlocks
  /\ DetachedUnobserved
  /\ exited => \A t \in Detached : Terminated(t)

\* C10 amended: dropping a handle never blocks the caller; the drop leaves
\* the task as it is, and a task is stopped before its end only by the exit
\* of the process, when main has returned or panicked; what a detached task
\* leaves is never observed by the caller.
C10_DetachedUntilExit ==
  /\ [](DropNeverBlocks /\ DetachedUnobserved)
  /\ [][\A t \in Tasks :
          /\ (handle[t] = "live" /\ handle'[t] = "dropped") =>
               tstate'[t] = tstate[t]
          /\ (tstate[t] # "killed" /\ tstate'[t] = "killed") =>
               (tstate[t] = "running" /\ Terminated(Main) /\ exited')
          /\ t \in Detached => handle'[t] = "dropped"]_vars

\* The handle of the move closure was dropped at the end of main while the
\* closure had not printed yet, and the process exited.
C10_Witness ==
  /\ prog = "move_detach"
  /\ handle[1] = "dropped"
  /\ tstate[Main] = "finished"
  /\ tstate[1] = "killed"
  /\ out = <<>>

\* The threads that still hold a Sender of the channel.
LiveSenders == DOMAIN ends

\* C11: try_recv never blocks.  A thread at rx.try_recv() can always take
\* the step; when the queue is empty and a Sender is still live, the step
\* returns Err(Empty) to the caller at once and leaves the channel as it
\* was: queue, Sender count, ends, Receiver, and what has been sent and
\* received so far.
C11_TryRecvNeverBlocks ==
  /\ [](\A t \in Threads :
          (AtOp(t, "try_recv") /\ ~exited) => ENABLED TryRecv(t))
  /\ [][\A t \in Threads :
          (AtOp(t, "try_recv") /\ pc'[t] # pc[t]
             /\ queue = <<>> /\ LiveSenders # {}) =>
            /\ ret'[t].kind = "Err"
            /\ ret'[t].val = "Empty"
            /\ UNCHANGED chanVars]_vars

\* main has got Err(Empty) from try_recv while the spawned thread still
\* holds tx.
C11_Witness ==
  /\ prog = "chan_one"
  /\ pc[Main] > 1
  /\ Code(prog, Main)[pc[Main] - 1].op = "try_recv"
  /\ ret[Main].kind = "Err"
  /\ ret[Main].val = "Empty"
  /\ queue = <<>>
  /\ LiveSenders = {"tx"}
  /\ rxLive

\* A thread at a blocking receive: rx.recv() or the next step of
\* `for received in rx`.
AtRecv(t) == AtOp(t, "recv") \/ AtOp(t, "for_rx")

\* C12: recv blocks while the queue is empty and at least one Sender is
\* live; with a message queued it can be taken and returns the head of the
\* queue, removing it; it returns the end-of-stream error only when the
\* queue is empty and no Sender is left.
C12_RecvBlocksUntilReady ==
  /\ [](\A t \in Threads :
          /\ (queue = <<>> /\ LiveSenders # {}) =>
               ~ENABLED Recv(t) /\ ~ENABLED ForRx(t)
          /\ (AtOp(t, "recv") /\ ~exited /\ rxLive /\ queue # <<>>) =>
               ENABLED Recv(t)
          /\ (AtOp(t, "for_rx") /\ ~exited /\ rxLive /\ queue # <<>>) =>
               ENABLED ForRx(t))
  /\ [][\A t \in Threads :
          (AtRecv(t) /\ pc'[t] # pc[t]) =>
            IF queue # <<>>
            THEN /\ ret'[t].kind = "Ok"
                 /\ ret'[t].val = Head(queue)
                 /\ queue' = Tail(queue)
                 /\ eos' = eos
            ELSE /\ ret'[t].kind = "Err"
                 /\ LiveSenders = {}
                 /\ eos'
                 /\ queue' = queue]_vars

\* main has taken one message of the loop and is blocked at the next
\* receive: the queue is empty and the producer still holds tx.
C12_Witness ==
  /\ prog = "chan_many"
  /\ AtOp(Main, "for_rx")
  /\ Len(recvd) = 1
  /\ queue = <<>>
  /\ LiveSenders = {"tx"}
  /\ ~ENABLED ForRx(Main)

\* The calls that may wait: join, the blocking receive, lock.
BlockingOps == {"join", "for_join", "recv", "for_rx", "lock"}

\* A thread that is waiting: it is at a call and cannot take it.
Blocked(t) == AtOp(t, Code(prog, t)[pc[t]].op) /\ ~exited /\ ~ENABLED ThreadStep(t)

\* C14: only join, the blocking receive and lock can block.  While the
\* process lives, a thread at send, try_recv, a Sender clone or an Arc clone
\* can take that step in every reachable state, whatever the other threads
\* hold and however long the queue is, and the step is the whole call; a
\* thread that cannot take its step is at a join, a receive or a lock.
C14_OnlyJoinRecvLockBlock ==
  \A t \in Threads :
    ~exited =>
      /\ AtOp(t, "send") => ENABLED Send(t)
      /\ AtOp(t, "try_recv") => ENABLED TryRecv(t)
      /\ AtOp(t, "clone_tx") => ENABLED CloneTx(t)
      /\ AtOp(t, "arc_clone") => ENABLED ArcClone(t)
      /\ (tstate[t] = "running" /\ ~ENABLED ThreadStep(t)) =>
           Code(prog, t)[pc[t]].op \in BlockingOps

\* main can clone the Arc while one task holds the lock and another waits
\* for it.
C14_Witness ==
  /\ prog = "counter"
  /\ AtOp(Main, "arc_clone")
  /\ ENABLED ArcClone(Main)
  /\ \E t \in Tasks : t \in guards
  /\ \E t \in Tasks : AtOp(t, "lock") /\ Blocked(t)

\* The snippets that iterate the Receiver: `for received in rx`.
LoopPrograms == {"chan_many", "chan_two"}

\* The loop over the Receiver has ended: it got the end of the stream and
\* main is past it.
IterationEnded ==
  /\ prog \in LoopPrograms
  /\ eos
  /\ ~rxLive
  /\ ~AtOp(Main, "for_rx") /\ ~AtOp(Main, "print_ret") /\ ~AtOp(Main, "loop")

\* C15: iterating the Receiver terminates once the channel is closed.
\* Every producer sends finitely many messages and then drops its Sender;
\* under the threads' fair scheduling the loop over the Receiver eventually
\* ends; when it has ended it has yielded every message that was sent, in
\* the order of the queue, nothing is left queued, and it has ended for
\* good: nothing is received after it.
C15_IterationTerminates ==
  /\ (prog \in LoopPrograms) ~> IterationEnded
  /\ [](IterationEnded =>
          /\ recvd = sent
          /\ queue = <<>>
          /\ LiveSenders = {}
          /\ Len(out) = Len(sent))
  /\ [][IterationEnded => (IterationEnded' /\ recvd' = recvd)]_vars

\* The loop over the two producers' channel has ended with all four
\* messages printed.
C15_Witness ==
  /\ prog = "chan_two"
  /\ IterationEnded
  /\ Len(out) = Len(ChanTwoValsA) + Len(ChanTwoValsB)
  /\ Len(recvd) = Len(out)

\* A thread is inside the scope of its guard: it has taken the lock and has
\* not yet reached the end of the block or of the closure that holds it.
InGuardScope(t) ==
  /\ tstate[t] = "running"
  /\ \E k \in 1..(pc[t] - 1) :
       /\ Code(prog, t)[k].op = "lock"
       /\ \A j \in (k + 1)..(pc[t] - 1) : Code(prog, t)[j].op # "unlock"

LiveArcs == DOMAIN arcs

\* C18: reference-counted ownership.  In the counter snippet Arc::new
\* leaves a count of 1, each clone adds one handle and one to the count,
\* each drop takes its handle and one from the count, so the count is
\* always the number of live handles; the Mutex lives while a handle does
\* and is destroyed by the very step that drops the last one.
C18_CountIsLiveHandles ==
  /\ [](prog = "counter" =>
          /\ strong = Cardinality(LiveArcs)
          /\ cell = "live" <=> LiveArcs # {}
          /\ cell = "dropped" => pc[Main] > 1)
  /\ [][prog = "counter" =>
          /\ (cell = "none" /\ cell' = "live") =>
               strong' = 1 /\ LiveArcs' = {0}
          /\ (\E self \in Threads : AtOp(self, "arc_clone") /\ pc'[self] # pc[self]) =>
               /\ strong' = strong + 1
               /\ Cardinality(LiveArcs') = Cardinality(LiveArcs) + 1
               /\ LiveArcs \subseteq LiveArcs'
          /\ (LiveArcs' # LiveArcs /\ LiveArcs' \subseteq LiveArcs) =>
               strong' = strong - Cardinality(LiveArcs \ LiveArcs')
          /\ (cell = "live" /\ cell' = "dropped") <=>
               (LiveArcs # {} /\ LiveArcs' = {})]_vars

\* Every task has dropped its clone and main, that held the last handle,
\* has dropped it too: the Mutex is destroyed.
C18_Witness ==
  /\ prog = "counter"
  /\ \A t \in Tasks : tstate[t] = "finished"
  /\ tstate[Main] = "finished"
  /\ strong = 0
  /\ LiveArcs = {}
  /\ cell = "dropped"

\* The two outcomes of a task: it returned a value, or it failed.
ReturnedValue(t) == tstate[t] = "finished" /\ result[t].kind = "Ok"

Failed(t) == tstate[t] = "panicked" /\ result[t].kind = "Err"

Spawned == {t \in Tasks : tstate[t] # "unspawned"}

\* A task starts once and does not run a second time: once spawned it stays
\* spawned, its closure is entered at its first statement by the spawn, it
\* only moves forward, and a task that has stopped stays as it stopped.
RunsOnce ==
  [][\A t \in Tasks :
       /\ (tstate[t] = "unspawned" /\ tstate'[t] # "unspawned") =>
            (tstate'[t] = "running" /\ pc'[t] = 1)
       /\ tstate[t] # "unspawned" =>
            (tstate'[t] # "unspawned" /\ pc'[t] >= pc[t])
       /\ tstate[t] \in {"finished", "panicked", "killed"} =>
            (tstate'[t] = tstate[t] /\ result'[t] = result[t]
               /\ pc'[t] = pc[t])]_vars

\* A task has at most one outcome, and has it exactly when it has ended.
AtMostOneOutcome ==
  \A t \in Tasks :
    /\ ~(ReturnedValue(t) /\ Failed(t))
    /\ tstate[t] = "finished" => ReturnedValue(t)
    /\ tstate[t] = "panicked" => Failed(t)
    /\ tstate[t] \in {"unspawned", "running", "killed"} =>
         result[t].kind = "None"

\* C19 as stated: a task runs once, and every spawned task ends in exactly
\* one of the two outcomes: when the program is over each spawned task has
\* either returned a value or failed.
C19_ExactlyOneOutcome ==
  /\ AtMostOneOutcome
  /\ exited => \A t \in Spawned : ReturnedValue(t) \/ Failed(t)

\* C19 amended: a task runs once and has at most one of the two outcomes,
\* never both and never a second run; a task that reaches the end of its
\* work ends in exactly one of them, and a task that is still running when
\* the process exits is stopped with neither.
C19_AtMostOneOutcome ==
  /\ RunsOnce
  /\ [](AtMostOneOutcome
        /\ (exited => \A t \in Spawned :
              \/ ReturnedValue(t)
              \/ Failed(t)
              \/ tstate[t] = "killed" /\ pc[t] <= Len(Code(prog, t))))
  /\ [][\A t \in Tasks :
          (tstate[t] = "running" /\ tstate'[t] # "running") =>
            \/ ReturnedValue(t)' /\ AtOp(t, "end")
            \/ Failed(t)'
            \/ tstate'[t] = "killed" /\ ~exited /\ exited']_vars

\* The program is over: the joined task returned its value, and the task
\* whose handle was discarded was stopped by the exit, with no outcome.
C19_Witness ==
  /\ prog = "spawn_join"
  /\ exited
  /\ ReturnedValue(2)
  /\ joinRes[2] = result[2]
  /\ tstate[1] = "killed"
  /\ result[1].kind = "None"

\* The calls that can hand a failure to their caller.
FallibleOps == {"join", "for_join", "send", "recv", "try_recv", "for_rx", "lock"}

\* Thread t is handed a failure in this step.
GetsErr(t) == ret[t].kind # "Err" /\ ret'[t].kind = "Err"

\* The step leaves every thread but t where it was.
OthersUntouched(t) ==
  \A u \in Threads \ {t} :
    tstate'[u] = tstate[u] /\ pc'[u] = pc[u] /\ ret'[u] = ret[u]

\* A failure goes to the caller of the failing call and to nobody else: it
\* is returned by a call the thread itself made; a thread panics only in its
\* own body or by unwrapping a failure that was returned to it; and either
\* step leaves every other thread as it was.
ErrToCallerOnly ==
  \A t \in Threads :
    /\ pc'[t] = pc[t] => ret'[t] = ret[t]
    /\ GetsErr(t) =>
         /\ Code(prog, t)[pc[t]].op \in FallibleOps
         /\ tstate'[t] = "running"
         /\ OthersUntouched(t)
    /\ (tstate[t] = "running" /\ tstate'[t] = "panicked") =>
         /\ \/ AtOp(t, "unwrap") /\ ret[t].kind = "Err"
            \/ AtOp(t, "snippet") /\ clos[t].fails
         /\ OthersUntouched(t)

\* The tasks of lines 7-17 touch no channel, lock or handle: whatever has
\* failed elsewhere, while the process lives they can take their step.
UntouchedCanRun ==
  \A t \in Tasks :
    (prog = "spawn_join" /\ tstate[t] = "running" /\ ~exited) =>
      ENABLED ThreadStep(t)

AccessOps == {"store", "add_load", "add_store", "print_deref"}

\* C21: the value is never read or written outside a held lock.  A thread
\* that is at a statement which reads or writes the value holds the lock,
\* and it alone; every change of the value after the Mutex was made is the
\* step of a thread that holds the lock; and a value is printed only by a
\* thread that holds the lock, or by the Debug print of the Mutex when
\* nobody holds it.
C21_AccessUnderLock ==
  /\ [](\A t \in Threads :
          (AtOp(t, "store") \/ AtOp(t, "add_load") \/ AtOp(t, "add_store")
             \/ AtOp(t, "print_deref")) => guards = {t})
  /\ [][(cell = "live" /\ mval' # mval) =>
          \E t \in guards :
            /\ pc'[t] # pc[t]
            /\ Code(prog, t)[pc[t]].op \in AccessOps
            /\ \A u \in Threads \ {t} : pc'[u] = pc[u]]_vars
  /\ [][(prog \in {"mutex_block", "counter"} /\ Len(out') # Len(out)) =>
          \E t \in Threads :
            /\ pc'[t] # pc[t]
            /\ \/ t \in guards /\ Code(prog, t)[pc[t]].op \in AccessOps
               \/ guards = {} /\ Code(prog, t)[pc[t]].op = "print_debug"]_vars

\* A task of the counter has read the value through its guard and is about
\* to write the sum back, while another task waits for the lock.
C21_Witness ==
  /\ prog = "counter"
  /\ \E t, u \in Tasks :
       /\ AtOp(t, "add_store")
       /\ guards = {t}
       /\ local[t] = mval
       /\ AtOp(u, "lock")
  /\ mval > CounterInit

\* The channel has become closed: it was made, and no Sender is left.
Closed == chan = "open" /\ senders = 0

\* C22: closing is irreversible.  Once the channel is closed it is closed
\* in every later state: the Sender count stays zero and no Sender comes
\* back; on a closed channel no thread can clone a Sender or send, since
\* there is none to clone or to send on, and no channel is made anew.
C22_ClosedForGood ==
  /\ [][Closed => (Closed' /\ senders' = 0 /\ LiveSenders' = {})]_vars
  /\ [](Closed =>
          /\ LiveSenders = {}
          /\ \A t \in Threads :
               /\ ~ENABLED CloneTx(t)
               /\ ~ENABLED Send(t)
               /\ ~ENABLED Channel(t))

\* The two producers' channel closed while main was still in its loop;
\* main has since left the loop and returned, and the channel is closed
\* still.
C22_Witness ==
  /\ prog = "chan_two"
  /\ Closed
  /\ closedAt >= 0
  /\ closedAt < Len(recvd)
  /\ tstate[Main] = "finished"

\* main is past the inner block of lines 137-143.
AfterBlock ==
  /\ prog = "mutex_block"
  /\ \E k \in 1..(pc[Main] - 1) : Code(prog, Main)[k].op = "unlock"

\* C23: the single-Mutex snippet.  m is made with 4 and holds 4 until the
\* write inside the block; after the block has ended the value is 8 and
\* the lock is free and not poisoned, so that a lock() on m would be
\* granted at once: the Debug print that follows takes the lock and shows
\* the 8.
C23_EightAndFreeAfterBlock ==
  prog = "mutex_block" =>
    /\ (cell = "live"
          /\ \A k \in 1..(pc[Main] - 1) : Code(prog, Main)[k].op # "store") =>
         mval = MutexInit
    /\ AfterBlock =>
         /\ mval = MutexStored
         /\ LockFree
         /\ ~poisoned
         /\ tstate[Main] = "running" => cell = "live"
    /\ out # <<>> => out = << MutexStored >>

\* The block has ended and the Debug print of m has shown 8.
C23_Witness ==
  /\ AfterBlock
  /\ mval = MutexStored
  /\ guards = {}
  /\ out = << MutexStored >>
  /\ tstate[Main] = "running"

\* C24: the counter as written prints 9.  `for _ in 1..10` runs for the
\* nine elements 1, .., 9 of the half-open range, so nine tasks are
\* spawned; main prints once, after every task was spawned and joined, and
\* what it prints is 9 in every interleaving, never 10.
C24_PrintsNine ==
  prog = "counter" =>
    /\ RangeLen = 9
    /\ Cardinality(Tasks) = 9
    /\ Cardinality(Spawned) <= 9
    /\ out # <<>> =>
         /\ out = << 9 >>
         /\ out # << 10 >>
         /\ Spawned = Tasks
         /\ AllJoined
         /\ mval = 9

\* The counter has run to its end: nine tasks have finished, main has
\* printed 9 and returned, and the process has exited.
C24_Witness ==
  /\ prog = "counter"
  /\ Cardinality({t \in Tasks : tstate[t] = "finished"}) = 9
  /\ tstate[Main] = "finished"
  /\ exited
  /\ out = << 9 >>

\* While the program has not ended some thread can take a step.
CounterNotStuck ==
  (prog = "counter" /\ ~exited) =>
    \/ \E t \in Threads : ENABLED ThreadStep(t)
    \/ ENABLED ProcessExit

\* The counter has run to its end: every task was granted the lock, has
\* incremented, released and finished, every join has returned, and main,
\* granted its final lock(), has printed the value and returned.
CounterDone ==
  /\ \A t \in Tasks : tstate[t] = "finished" /\ handle[t] = "joined"
  /\ Incremented_Tasks = Tasks
  /\ guards = {}
  /\ handles = <<>>
  /\ Len(out) = 1
  /\ tstate[Main] = "finished"
  /\ exited

\* C25: the counter is deadlock-free and terminates.  Under the threads'
\* fair scheduling (no task fails: none can) every spawned task, once it
\* waits for the lock, is eventually granted it, and eventually has
\* incremented, released and finished; every join of main's loop
\* eventually returns; main's final lock() is eventually granted; and the
\* program ends with 9 printed.  At no moment before the end is every
\* thread stuck.
C25_CounterTerminates ==
  /\ []CounterNotStuck
  /\ <>[]CounterDone

\* Eight tasks wait for the lock that the ninth holds, and main waits in
\* its first join.
C25_Witness ==
  /\ prog = "counter"
  /\ Cardinality(guards) = 1
  /\ Cardinality({t \in Tasks : AtOp(t, "lock")}) = RangeLen - 1
  /\ AtOp(Main, "for_join")
  /\ ~ENABLED ThreadStep(Main)

\* main of the first channel snippet is past its rx.try_recv().
AfterTryRecv ==
  /\ prog = "chan_one"
  /\ \E k \in 1..(pc[Main] - 1) : Code(prog, Main)[k].op = "try_recv"

\* What main makes of the first channel snippet: one message is sent and
\* received; try_recv finds the queue empty and returns an error, Empty
\* while the thread still holds tx and Disconnected once it has ended and
\* dropped it; main gets no further than the unwrap of that error.
TryRecvFindsNothing ==
  prog = "chan_one" =>
    /\ Len(sent) <= 1
    /\ Len(recvd) <= 1
    /\ Len(out) <= 1
    /\ tstate[Main] # "finished"
    /\ tstate[Main] = "panicked" => AfterTryRecv
    /\ AfterTryRecv =>
         /\ Len(recvd) = 1
         /\ queue = <<>>
         /\ ret[Main].kind = "Err"
         /\ ret[Main].val \in {"Empty", "Disconnected"}
         /\ ret[Main].val = "Disconnected" =>
              (tstate[1] # "running" /\ LiveSenders = {})
         /\ AtOp(Main, "unwrap") \/ tstate[Main] = "panicked"

\* C26: in the first channel snippet exactly one message is ever sent and
\* recv consumes it, so in every interleaving the try_recv that follows
\* returns no message but an error, nothing ready or disconnected, and the
\* unwrap applied to it fails: main always ends in that panic and never
\* reaches its second print.
C26_TryRecvUnwrapFails ==
  /\ []TryRecvFindsNothing
  /\ (prog = "chan_one") ~> (tstate[Main] = "panicked" /\ AfterTryRecv)

\* The thread had ended and dropped tx when main called try_recv: it got
\* Disconnected, and the unwrap has panicked.
C26_Witness ==
  /\ prog = "chan_one"
  /\ tstate[Main] = "panicked"
  /\ ret[Main].kind = "Err"
  /\ ret[Main].val = "Disconnected"
  /\ Len(out) = 1
  /\ tstate[1] = "finished"

\* The two producers' snippet: the loop has not ended before both Senders
\* were dropped by the tasks they were moved into, at the end of each, and
\* not before all four messages were delivered; it never yields a fifth.
FourBeforeEnd ==
  prog = "chan_two" =>
    /\ Len(recvd) <= 4
    /\ \A e \in LiveSenders :
         ends[e] # Main => ends[e] = (IF e = "tx1" THEN 1 ELSE 2)
    /\ (eos \/ IterationEnded) =>
         /\ Len(recvd) = 4
         /\ Len(out) = 4
         /\ Len(Filter(recvd, "tx1")) = Len(ChanTwoValsA)
         /\ Len(Filter(recvd, "tx")) = Len(ChanTwoValsB)
         /\ LiveSenders = {}
         /\ tstate[1] = "finished"
         /\ tstate[2] = "finished"

\* C27: in the two-producer program the loop over the Receiver yields
\* exactly four messages and then ends, in every interleaving: it ends
\* only after tx1 and tx, each moved into its own task, were dropped at
\* the end of those tasks, never before all four messages were delivered,
\* and under the threads' fair scheduling it does end.
C27_FourThenEnd ==
  /\ []FourBeforeEnd
  /\ (prog = "chan_two") ~> (IterationEnded /\ Len(out) = 4)

\* Both messages of the first producer came before those of the second;
\* the loop has ended after the four and main has returned.
C27_Witness ==
  /\ prog = "chan_two"
  /\ IterationEnded
  /\ Srcs(recvd) = << "tx1", "tx1", "tx", "tx" >>
  /\ Len(out) = 4
  /\ tstate[Main] = "finished"

\* No message occurs twice in ms.
NoDuplicates(ms) ==
  \A i, j \in 1..Len(ms) : i # j => ms[i] # ms[j]

\* C28: no message is lost or duplicated.  In every reachable state the
\* messages received so far followed by those still queued are exactly the
\* messages whose send succeeded, each once; and when end-of-stream is
\* reported nothing is queued and the receiver has received every one of
\* them exactly once.
C28_NothingLostOrDuplicated ==
  /\ recvd \o queue = sent
  /\ NoDuplicates(sent)
  /\ NoDuplicates(recvd \o queue)
  /\ eos =>
       /\ queue = <<>>
       /\ Len(recvd) = Len(sent)
       /\ \A k \in 1..Len(sent) :
            Cardinality({i \in 1..Len(recvd) : recvd[i] = sent[k]}) = 1

\* All four messages of the two producers have been sent; the receiver has
\* taken two of them and two are still queued.
C28_Witness ==
  /\ prog = "chan_two"
  /\ rxLive
  /\ Len(sent) = 4
  /\ Len(recvd) = 2
  /\ Len(queue) = 2
  /\ recvd \o queue = sent

\* main waits in a receive: the channel is open and empty.
BlockedInRecv ==
  /\ AtRecv(Main)
  /\ ~exited
  /\ rxLive
  /\ queue = <<>>
  /\ LiveSenders # {}

\* C29: no lost wake-up on close.  A receiver at recv (or at the next step
\* of the loop over rx) can take its step whenever a message is queued or
\* the channel is closed; the wait of a blocked receiver ends only by a
\* send, which queues a message, or by the drop of the last Sender; and
\* under the threads' fair scheduling a blocked receiver is always woken:
\* it gets a further message or the end of the stream, and never stays
\* blocked on a closed channel.
C29_NoLostWakeup ==
  /\ []((AtRecv(Main) /\ ~exited /\ rxLive /\ (queue # <<>> \/ Closed)) =>
          ENABLED ThreadStep(Main))
  /\ [][(BlockedInRecv /\ ~BlockedInRecv') =>
          (queue' # <<>> \/ Closed')]_vars
  /\ \A n \in 0..4 :
       (BlockedInRecv /\ Len(recvd) = n) ~> (Len(recvd) > n \/ eos)

\* The last Sender was dropped with nothing queued while main was at the
\* head of its loop: main can take the step that reports the end.
C29_Witness ==
  /\ prog = "chan_many"
  /\ AtOp(Main, "for_rx")
  /\ queue = <<>>
  /\ Closed
  /\ closedAt = Len(recvd)
  /\ ~eos
  /\ ENABLED ForRx(Main)

\* What a join leaves behind: a task whose handle was joined has finished
\* and has dropped its clone of the Arc and its guard.
JoinedHoldNothing ==
  \A t \in Tasks :
    handle[t] = "joined" =>
      /\ tstate[t] = "finished"
      /\ t \notin guards
      /\ OwnedArcs(t) = {}

\* C30 as stated: in every state after main has joined all handles of the
\* counter the count is 1, no task holds the lock and the Mutex has not
\* been destroyed.
C30_CountOneAfterJoins ==
  /\ prog = "counter" => JoinedHoldNothing
  /\ (prog = "counter" /\ AllJoined) =>
       /\ strong = 1
       /\ guards \cap Tasks = {}
       /\ cell = "live"

\* C30 amended: each task's clone and guard are dropped before its join
\* returns; after main has joined all handles, and for as long as main
\* runs, the count is 1, the one handle is main's, no task holds the lock
\* and the Mutex is live; when main ends it drops that last handle, the
\* count is 0 and the Mutex is destroyed.
C30_CountOneUntilMainEnds ==
  prog = "counter" =>
    /\ JoinedHoldNothing
    /\ (AllJoined /\ tstate[Main] = "running") =>
         /\ strong = 1
         /\ LiveArcs = {0}
         /\ OwnedArcs(Main) = {0}
         /\ guards \subseteq {Main}
         /\ cell = "live"
    /\ (AllJoined /\ tstate[Main] # "running") =>
         /\ strong = 0
         /\ LiveArcs = {}
         /\ guards = {}
         /\ cell = "dropped"

\* Every handle is joined and main is about to take the lock for the
\* print: its handle is the only one left.
C30_Witness ==
  /\ prog = "counter"
  /\ AllJoined
  /\ handles = <<>>
  /\ AtOp(Main, "lock")
  /\ strong = 1
  /\ guards = {}
  /\ cell = "live"
  /\ mval = CounterInit + RangeLen

====
